---- MODULE Spec2Model ----
(***************************************************************************)
(* A model of python/dcomp/utils.py of drupal-computing:                   *)
(*   - read_properties, the Java-properties parser (the for loop over the  *)
(*     lines of the file, one action per iteration outcome);               *)
(*   - DConfig.get / DConfig.set, the configuration facade;                *)
(*   - DRestfulJsonServices.request / user_login / user_logout.            *)
(* Text is modelled as sequences of one-character strings.  Positions in   *)
(* a line are 0-based, as in the Python source.                            *)
(***************************************************************************)
EXTENDS Integers, Sequences, FiniteSets, TLC

\* ------------------------------------------------------------------ bounds

\* Longest file text (in characters, line terminators included).
MaxFileLen == 5

\* Longest text of a file with comment lines.
MaxCommentFileLen == 5

\* ------------------------------------------------------------- characters

BS == "\\"
NL == "\n"

\* The characters a file is made of.  "a" stands for any ordinary character.
Alphabet == {"a", "=", ":", " ", BS, NL}

\* The characters of the files with comment lines.  "#" and ";" are ordinary
\* characters wherever they do not start a line.
CommentAlphabet == {"#", ";", "=", " ", BS, NL}

\* What \s and str.strip() treat as whitespace (within the alphabet).
Whitespace == {" ", NL}

\* Python interpreters the module is written for (the six.PY2 / six.PY3
\* branches of DDrush.execute).
PyVersions == {2, 3}

\* ------------------------------------------------------------ text helpers

\* line[p] with a 0-based index.
At(s, p) == s[p + 1]

\* Python slice s[a:b] (0-based, end exclusive, clipped to the string).
Slice(s, a, b) ==
  LET lo == IF a < 0 THEN 0 ELSE a
      hi == IF b > Len(s) THEN Len(s) ELSE b
  IN  IF lo >= hi THEN << >> ELSE SubSeq(s, lo + 1, hi)

\* str.strip(): the text from its first to its last character that is not
\* whitespace.
strip(s) ==
  LET kept == {p \in 1..Len(s) : s[p] \notin Whitespace}
  IN  IF kept = {} THEN << >>
      ELSE SubSeq(s, CHOOSE p \in kept : \A q \in kept : p <= q,
                     CHOOSE p \in kept : \A q \in kept : p >= q)

\* str.replace(a + b, c): every non-overlapping occurrence of the two
\* characters a b, left to right, becomes the one character c.
RECURSIVE replace2_from(_, _, _, _, _)
replace2_from(s, p, a, b, c) ==
  IF p > Len(s) THEN << >>
  ELSE IF p < Len(s) /\ s[p] = a /\ s[p + 1] = b
    THEN <<c>> \o replace2_from(s, p + 2, a, b, c)
    ELSE <<s[p]>> \o replace2_from(s, p + 1, a, b, c)

replace2(s, a, b, c) == replace2_from(s, 1, a, b, c)

\* str.replace(a, ''): every occurrence of the character a is removed.
remove1(s, a) == SelectSeq(s, LAMBDA ch : ch # a)

\* ''.join(parts)
RECURSIVE join(_)
join(parts) ==
  IF parts = << >> THEN << >> ELSE Head(parts) \o join(Tail(parts))

\* All texts of at most n characters.
TextsUpTo(chars, n) == UNION {[1..k -> chars] : k \in 0..n}

\* f.readlines(): the text cut after every line terminator; each line keeps
\* its terminator, a last line without one is kept as it is.
RECURSIVE readlines_from(_, _)
readlines_from(text, p) ==
  IF p > Len(text) THEN << >>
  ELSE LET ends == {q \in p..Len(text) : text[q] = NL}
       IN  IF ends = {} THEN <<SubSeq(text, p, Len(text))>>
           ELSE <<SubSeq(text, p, CHOOSE e \in ends : \A q \in ends : e <= q)>>
                  \o readlines_from(text,
                        (CHOOSE e \in ends : \A q \in ends : e <= q) + 1)

readlines(text) == readlines_from(text, 1)

\* ------------------------------------------------- the regular expressions

\* End of the run of whitespace that starts at p (where \s* stops).
RECURSIVE WsRunEnd(_, _)
WsRunEnd(line, p) ==
  IF p < Len(line) /\ At(line, p) \in Whitespace
    THEN WsRunEnd(line, p + 1)
    ELSE p

\* (\s*\=)|(\s*\:) matches at p, with the lookbehind (?<!\\) when asked.
OtherCharAt(line, p, lookbehind) ==
  /\ lookbehind => (p = 0 \/ At(line, p - 1) # BS)
  /\ LET q == WsRunEnd(line, p)
     IN  q < Len(line) /\ At(line, q) \in {"=", ":"}

\* othercharre with its lookbehinds forgotten: an escaped '=' or ':' matches.
othercharre_no_lookbehind(line) ==
  LET hits == {p \in 0..(Len(line) - 1) : OtherCharAt(line, p, FALSE)}
  IN  IF hits = {} THEN <<-1, -1>>
      ELSE LET first == CHOOSE p \in hits : \A q \in hits : p <= q
           IN  <<first, WsRunEnd(line, first) + 1>>

\* othercharre.search(line): the span <<first, last>> of the leftmost match
\* of (?<!\\)(\s*\=)|(?<!\\)(\s*\:), or <<-1, -1>> for None.
othercharre(line) ==
  LET hits == {p \in 0..(Len(line) - 1) : OtherCharAt(line, p, TRUE)}
  IN  IF hits = {} THEN <<-1, -1>>
      ELSE LET first == CHOOSE p \in hits : \A q \in hits : p <= q
           IN  <<first, WsRunEnd(line, first) + 1>>

\* othercharre2.search(line) is not None: (\s*\=)|(\s*\:) matches somewhere.
othercharre2(line) ==
  \E p \in 0..(Len(line) - 1) : OtherCharAt(line, p, FALSE)

\* The characters the lookbehind of each wspacere forbids before the
\* whitespace: (?<![\\\=\:])(\s) and (?<![\\])(\s).
WspaceExcluded(re) ==
  IF re = "not_after_bs_eq_colon" THEN {BS, "=", ":"} ELSE {BS}

\* wspacere.search(line, start, end): the position of the leftmost match, or
\* -1 for None.
wspacere_search(re, line, start, end) ==
  LET hits == {p \in start..(end - 1) :
                 /\ p < Len(line)
                 /\ At(line, p) \in Whitespace
                 /\ (p = 0 \/ At(line, p - 1) \notin WspaceExcluded(re))}
  IN  IF hits = {} THEN -1
      ELSE CHOOSE p \in hits : \A q \in hits : p <= q

\* bspacere, \\(?!\s$), matches at j: a backslash that is not followed by
\* exactly one whitespace character and the end of the string.
BspaceAt(key, j) ==
  /\ At(key, j) = BS
  /\ ~(j + 2 = Len(key) /\ At(key, j + 1) \in Whitespace)

\* bspacere.split(key): the pieces between the matches.
RECURSIVE bspacere_split(_, _, _)
bspacere_split(key, j, piece) ==
  IF j >= Len(key) THEN <<piece>>
  ELSE IF BspaceAt(key, j)
    THEN <<piece>> \o bspacere_split(key, j + 1, << >>)
    ELSE bspacere_split(key, j + 1, Append(piece, At(key, j)))

\* lastpart.find('\\ ') != -1
HasEscapedSpace(s) ==
  \E p \in 1..(Len(s) - 1) : s[p] = BS /\ s[p + 1] = " "

\* ------------------------------------------------------- read_properties

\* unescape(value): '\:' becomes ':' and then '\=' becomes '='.
unescape(value) == replace2(replace2(value, BS, ":", ":"), BS, "=", "=")

\* The skip test with the ';' comments forgotten.
IsSkipped_hash_only(line) == line = << >> \/ line[1] = "#"

\* The loop skips the stripped line: it is empty, or a comment.
IsSkipped(line) == line = << >> \/ line[1] = "#" \/ line[1] = ";"

\* Separator detection on the stripped raw line: which wspacere the
\* iteration leaves bound, and sepidx (-1: none).  wspacere comes in as the
\* previous iterations left it: the branch that finds neither '=' nor ':'
\* assigns nothing, and searching with an unbound name raises.
Separator(line, wsp) ==
  LET m      == othercharre(line)
      found  == m # <<-1, -1>>
      re     == IF found THEN "not_after_bs_eq_colon"
                ELSE IF othercharre2(line) THEN "not_after_bs"
                ELSE wsp
      end    == IF found THEN m[1] ELSE Len(line)
      m2     == IF re = "unbound" THEN -1
                ELSE wspacere_search(re, line, 0, end)
  IN  [wspacere |-> re,
       exc      |-> IF re = "unbound" THEN "UnboundLocalError" ELSE "none",
       sepidx   |-> IF m2 # -1 THEN m2
                    ELSE IF found THEN m[2] - 1
                    ELSE -1]

\* What i.next() does when the iterator has taken n of the lines: Python 3's
\* list iterator has no next method; Python 2's raises StopIteration at the
\* end of the lines.
IterNext(lns, n, ver) ==
  IF ver = 3 THEN "AttributeError"
  ELSE IF n >= Len(lns) THEN "StopIteration"
  ELSE "none"

\* while line[-1] == '\\': the line without its backslash, joined with the
\* stripped next raw line, as long as it ends with a backslash.  n counts the
\* raw lines the iterator has handed out.
RECURSIVE Continuation(_, _, _, _)
Continuation(line, lns, n, ver) ==
  IF line = << >> THEN [line |-> line, n |-> n, exc |-> "IndexError"]
  ELSE IF line[Len(line)] # BS THEN [line |-> line, n |-> n, exc |-> "none"]
  ELSE IF IterNext(lns, n, ver) # "none"
    THEN [line |-> line, n |-> n, exc |-> IterNext(lns, n, ver)]
  ELSE CHOOSE r \in {Continuation(merged, lns, n + 1, ver) :
                       merged \in {Slice(line, 0, Len(line) - 1)
                                     \o strip(lns[n + 1])}} : TRUE

\* The key as stored: the backslashes bspacere matches are dropped; a last
\* piece holding '\ ' loses its backslash, otherwise a last piece ending
\* with a space makes the whole key stripped.
ResolveKey(key) ==
  LET keyparts   == bspacere_split(key, 0, << >>)
      lastpart   == keyparts[Len(keyparts)]
      escaped    == HasEscapedSpace(lastpart)
      strippable == ~escaped /\ lastpart # << >>
                      /\ lastpart[Len(lastpart)] = " "
      parts      == IF escaped
                      THEN [keyparts EXCEPT ![Len(keyparts)] =
                                              remove1(lastpart, BS)]
                      ELSE keyparts
  IN  IF strippable THEN strip(join(parts)) ELSE join(parts)

\* A store that keeps the first value of a key (dict.setdefault).
DictSet_keep_first(d, key, value) ==
  [k \in DOMAIN d \cup {key} |-> IF k \in DOMAIN d THEN d[k] ELSE value]

\* props[key] = value
DictSet(d, key, value) ==
  [k \in DOMAIN d \cup {key} |-> IF k = key THEN value ELSE d[k]]

\* The end of the loop body: the merged line cut at sepidx, the key and the
\* value unescaped, and the entry stored.
StoreEntry(line, sepidx, d) ==
  LET key   == IF sepidx # -1 THEN Slice(line, 0, sepidx) ELSE line
      value == IF sepidx # -1 THEN Slice(line, sepidx + 1, Len(line))
               ELSE << >>
  IN  [key   |-> ResolveKey(key),
       value |-> strip(unescape(value)),
       props |-> DictSet(d, ResolveKey(key), strip(unescape(value)))]

\* The loop body for a stripped line that is not skipped; n counts the raw
\* lines handed out so far, the line itself included.  Each local is bound
\* once, in the order the code assigns it.
ParseLine(line, lns, n, d, wsp, ver) ==
  CHOOSE r \in
    {IF sep.exc # "none"
       THEN [kind |-> "raise", n |-> n, props |-> d, wspacere |-> wsp,
             exc |-> sep.exc, line |-> line, sepidx |-> -1]
     ELSE IF cont.exc # "none"
       THEN [kind |-> "raise", n |-> cont.n, props |-> d,
             wspacere |-> sep.wspacere, exc |-> cont.exc,
             line |-> cont.line, sepidx |-> sep.sepidx]
     ELSE [kind |-> "store", n |-> cont.n, props |-> e.props,
           wspacere |-> sep.wspacere, exc |-> "none",
           line |-> cont.line, sepidx |-> sep.sepidx,
           key |-> e.key, value |-> e.value] :
       <<sep, cont, e>> \in
         {<<sp, cn, StoreEntry(cn.line, sp.sepidx, d)>> :
            sp \in {Separator(line, wsp)},
            cn \in {Continuation(line, lns, n, ver)}}} : TRUE

\* One pass of the body of "for line in i" for the raw line n + 1.
Iteration(lns, n, d, wsp, ver) ==
  CHOOSE r \in
    {IF IsSkipped(line)
       THEN [kind |-> "skip", n |-> n + 1, props |-> d, wspacere |-> wsp,
             exc |-> "none", line |-> line]
       ELSE ParseLine(line, lns, n + 1, d, wsp, ver) :
         line \in {strip(lns[n + 1])}} : TRUE

\* What a call of read_properties gives: the dict it returns, or the
\* exception it raises (the dict is then lost).
Returned(d) == [pc |-> "done", props |-> d, exc |-> "none"]
Raised(e) == [pc |-> "error", props |-> << >>, exc |-> e]

\* read_properties as a function of the lines: the loop run to its end.
RECURSIVE Run(_, _, _, _, _)
Run(lns, n, d, wsp, ver) ==
  IF n >= Len(lns) THEN Returned(d)
  ELSE CHOOSE res \in
         {IF r.kind = "raise" THEN Raised(r.exc)
          ELSE Run(lns, r.n, r.props, r.wspacere, ver) :
            r \in {Iteration(lns, n, d, wsp, ver)}} : TRUE

read_properties(lns, ver) == Run(lns, 0, << >>, "unbound", ver)

\* ---------------------------------------------------------------- DConfig

\* None, as a value of a property or of a default.
None == "<None>"

\* str.upper() on one character.
Upper(ch) == IF ch = "a" THEN "A" ELSE IF ch = "b" THEN "B" ELSE ch

\* key.replace('.', '_').upper()
env_key(key) ==
  LET replaced == [p \in 1..Len(key) |-> IF key[p] = "." THEN "_" ELSE key[p]]
  IN  [p \in 1..Len(key) |-> Upper(replaced[p])]

\* dict.get(key, None)
DictGet(d, key) == IF key \in DOMAIN d THEN d[key] ELSE None

\* A get that asks the environment first.
DConfig_get_env_first(d, environ, key, value) ==
  LET result  == DictGet(environ, env_key(key))
      result2 == IF result = None THEN DictGet(d, key) ELSE result
  IN  IF result2 # None THEN result2 ELSE value

\* DConfig.get(key, value)
DConfig_get(d, environ, key, value) ==
  LET result  == DictGet(d, key)
      result2 == IF result = None THEN DictGet(environ, env_key(key))
                 ELSE result
  IN  IF result2 # None THEN result2 ELSE value

\* ------------------------------------------------- DRestfulJsonServices

\* The X-CSRF-Token header of a request: the session token, or no header.
CsrfHeader(token) == IF token # None THEN token ELSE "<no header>"

\* user_login: what the session token becomes on a response ("<no token>":
\* the result has no 'token' entry; "": an empty one).
LoginToken(token, response) ==
  IF response # "<no token>" /\ response # "" THEN response ELSE token

\* A logout that forgets to clear the token.
LogoutToken_kept(token) == token

\* user_logout: the session token once the request has returned.
LogoutToken(token) == None

\* ------------------------------------------------------------------ state

VARIABLES
  lines,      \* read_properties: f.readlines()
  py,         \* the major version of the interpreter
  pc,         \* "loop", "done" (returned props) or "error" (raised)
  i,          \* how many raw lines the iterator i has handed out
  props,      \* the dict being built
  wspacere,   \* the local wspacere: "unbound" or the pattern bound to it
  exc,        \* the exception read_properties raised, or "none"
  line,       \* the local line (stripped, then merged with continuations)
  sepidx,     \* the local sepidx
  key,        \* the local key, as stored
  value,      \* the local value, as stored
  properties, \* DConfig: self.properties
  environ,    \* the process environment
  written,    \* history: the value last loaded or set for each key
  got,        \* history: the get call made since the last set, if any,
              \* and what it returned
  services_session_token, \* DRestfulJsonServices: the session token
  granted,    \* history: the token of the login in force, or None
  sent        \* history: the X-CSRF-Token header of each request made

parserVars == <<lines, py, pc, i, props, wspacere, exc, line, sepidx, key,
                value>>
configVars == <<properties, environ, written, got>>
servicesVars == <<services_session_token, granted, sent>>
vars == <<parserVars, configVars, servicesVars>>

\* ---- read_properties

ParserInit(chars, maxlen) ==
  /\ lines \in {readlines(t) : t \in TextsUpTo(chars, maxlen)}
  /\ py \in PyVersions
  /\ pc = "loop"
  /\ i = 0
  /\ props = << >>
  /\ wspacere = "unbound"
  /\ exc = "none"
  /\ line = << >>
  /\ sepidx = -1
  /\ key = << >>
  /\ value = << >>

\* A parser that is not called.
ParserIdle ==
  /\ lines = << >> /\ py = 3 /\ pc = "done" /\ i = 0 /\ props = << >>
  /\ wspacere = "unbound" /\ exc = "none" /\ line = << >> /\ sepidx = -1
  /\ key = << >> /\ value = << >>

\* The loop takes a blank or comment line and continues.
SkipLine ==
  /\ pc = "loop" /\ i < Len(lines)
  /\ \E r \in {Iteration(lines, i, props, wspacere, py)} :
       /\ r.kind = "skip"
       /\ i' = r.n
       /\ line' = r.line
  /\ UNCHANGED <<lines, py, pc, props, wspacere, exc, sepidx, key, value>>
  /\ UNCHANGED <<configVars, servicesVars>>

\* The loop takes a line (and its continuation lines) and stores an entry.
StoreLine ==
  /\ pc = "loop" /\ i < Len(lines)
  /\ \E r \in {Iteration(lines, i, props, wspacere, py)} :
       /\ r.kind = "store"
       /\ i' = r.n
       /\ props' = r.props
       /\ wspacere' = r.wspacere
       /\ line' = r.line
       /\ sepidx' = r.sepidx
       /\ key' = r.key
       /\ value' = r.value
  /\ UNCHANGED <<lines, py, pc, exc>>
  /\ UNCHANGED <<configVars, servicesVars>>

\* The body raises: read_properties ends with the exception.
RaiseLine ==
  /\ pc = "loop" /\ i < Len(lines)
  /\ \E r \in {Iteration(lines, i, props, wspacere, py)} :
       /\ r.kind = "raise"
       /\ i' = r.n
       /\ wspacere' = r.wspacere
       /\ exc' = r.exc
       /\ line' = r.line
       /\ sepidx' = r.sepidx
  /\ pc' = "error"
  /\ UNCHANGED <<lines, py, props, key, value>>
  /\ UNCHANGED <<configVars, servicesVars>>

\* The iterator is exhausted: return props.
Return ==
  /\ pc = "loop" /\ i = Len(lines)
  /\ pc' = "done"
  /\ UNCHANGED <<lines, py, i, props, wspacere, exc, line, sepidx, key, value>>
  /\ UNCHANGED <<configVars, servicesVars>>

\* What the call has given once it has ended.
Result == IF pc = "done" THEN Returned(props) ELSE Raised(exc)

\* ---- DConfig

\* The property names and values the configuration is exercised with: three
\* names with the same environment name, A_B.
ConfigKeys == {<<"a", ".", "b">>, <<"a", "_", "b">>, <<"A", "_", "B">>}
EnvNames == {<<"A", "_", "B">>, <<"a", "_", "b">>, <<"a", ".", "b">>}
StrValues == {"file", "other"}

\* All dicts from some of the names to strings.
Dicts(names, values) == UNION {[ks -> values] : ks \in SUBSET names}

\* DConfig.__init__: the properties read from the file (none when it is
\* missing), in an environment.
ConfigInit ==
  /\ properties \in Dicts(ConfigKeys, StrValues)
  /\ environ \in Dicts(EnvNames, {"env"})
  /\ written = [k \in ConfigKeys |->
                  IF k \in DOMAIN properties THEN properties[k] ELSE None]
  /\ got = [key |-> << >>, value |-> None, result |-> None]

\* A configuration that is not used.
ConfigIdle ==
  /\ properties = << >> /\ environ = << >>
  /\ written = << >>
  /\ got = [key |-> << >>, value |-> None, result |-> None]

\* DConfig.set(key, value)
Set ==
  \E k \in ConfigKeys, v \in StrValues \cup {None} :
    /\ properties' = DictSet(properties, k, v)
    /\ written' = [written EXCEPT ![k] = v]
    /\ got' = [key |-> << >>, value |-> None, result |-> None]
    /\ UNCHANGED environ
    /\ UNCHANGED <<parserVars, servicesVars>>

\* DConfig.get(key, value)
Get ==
  \E k \in ConfigKeys, v \in {"default", None} :
    /\ got' = [key |-> k, value |-> v,
               result |-> DConfig_get(properties, environ, k, v)]
    /\ UNCHANGED <<properties, environ, written>>
    /\ UNCHANGED <<parserVars, servicesVars>>

\* ---- DRestfulJsonServices

\* Most requests a client makes.
MaxRequests == 4

Tokens == {"t1", "t2"}

\* What the server answers: an HTTP error (urlopen raises), or a JSON result
\* without a token, with an empty one, or with a token.
Responses == {"<HTTPError>", "<no token>", ""} \cup Tokens

\* DRestfulJsonServices.__init__
ServicesInit ==
  /\ services_session_token = None
  /\ granted = None
  /\ sent = << >>

\* request(): the headers go out with the X-CSRF-Token the token gives.
Send ==
  sent' = Append(sent, [header  |-> CsrfHeader(services_session_token),
                        granted |-> granted])

\* request(directive, params, method), called directly.
Request ==
  /\ Len(sent) < MaxRequests
  /\ Send
  /\ UNCHANGED <<services_session_token, granted>>
  /\ UNCHANGED <<parserVars, configVars>>

\* user_login()
UserLogin ==
  /\ Len(sent) < MaxRequests
  /\ \E response \in Responses :
       /\ Send
       /\ IF response = "<HTTPError>"
            THEN UNCHANGED <<services_session_token, granted>>
            ELSE /\ services_session_token' =
                      LoginToken(services_session_token, response)
                 /\ granted' = IF response \in Tokens THEN response
                               ELSE granted
  /\ UNCHANGED <<parserVars, configVars>>

\* user_logout()
UserLogout ==
  /\ Len(sent) < MaxRequests
  /\ \E response \in Responses :
       /\ Send
       /\ IF response = "<HTTPError>"
            THEN UNCHANGED <<services_session_token, granted>>
            ELSE /\ services_session_token' =
                      LogoutToken(services_session_token)
                 /\ granted' = None
  /\ UNCHANGED <<parserVars, configVars>>

\* is_authenticated()
is_authenticated == services_session_token # None

\* --------------------------------------------------------- specifications

ServicesIdle == ServicesInit

\* read_properties on a file of ordinary characters, separators, spaces and
\* backslashes.
Init == ParserInit(Alphabet, MaxFileLen) /\ ConfigIdle /\ ServicesIdle

Next == SkipLine \/ StoreLine \/ RaiseLine \/ Return

Spec == Init /\ [][Next]_vars

\* read_properties on a file with comment lines.
InitComments ==
  ParserInit(CommentAlphabet, MaxCommentFileLen) /\ ConfigIdle /\ ServicesIdle

SpecComments == InitComments /\ [][Next]_vars

\* A DConfig after its construction.
InitConfig == ConfigInit /\ ParserIdle /\ ServicesIdle

NextConfig == Set \/ Get

SpecConfig == InitConfig /\ [][NextConfig]_vars

\* A DRestfulJsonServices after its construction.
InitServices == ServicesInit /\ ParserIdle /\ ConfigIdle

NextServices == Request \/ UserLogin \/ UserLogout

SpecServices == InitServices /\ [][NextServices]_vars

\* ------------------------------------------------------------------ claims

Ended == pc \in {"done", "error"}

Last(sq) == sq[Len(sq)]

\* The stripped raw line n.
Stripped(n) == strip(lines[n])

\* The number of "a" characters a text starts with, and ends with.
LeadingAs(s) ==
  CHOOSE k \in 0..Len(s) :
    /\ \A p \in 1..k : s[p] = "a"
    /\ k < Len(s) => s[k + 1] # "a"
TrailingAs(s) ==
  CHOOSE k \in 0..Len(s) :
    /\ \A p \in (Len(s) - k + 1)..Len(s) : s[p] = "a"
    /\ k < Len(s) => s[Len(s) - k] # "a"

\* An escape-free line key SEP value: a key and a value of ordinary
\* characters around '=', ':' or whitespace, the '=' or ':' padded with any
\* amount of whitespace.
KeyOf(s) == SubSeq(s, 1, LeadingAs(s))
ValueOf(s) == SubSeq(s, Len(s) - TrailingAs(s) + 1, Len(s))
SepOf(s) == SubSeq(s, LeadingAs(s) + 1, Len(s) - TrailingAs(s))
KeySepValue(s) ==
  /\ LeadingAs(s) >= 1 /\ TrailingAs(s) >= 1
  /\ LeadingAs(s) + TrailingAs(s) < Len(s)
  /\ \A p \in 1..Len(SepOf(s)) : SepOf(s)[p] \in {" ", "=", ":"}
  /\ Cardinality({p \in 1..Len(SepOf(s)) : SepOf(s)[p] \in {"=", ":"}}) <= 1

\* C1: when every line of the input is an escape-free line key SEP value
\* (SEP being '=', ':' or whitespace, the '=' or ':' padded with any amount
\* of whitespace), read_properties returns a mapping in which the key of
\* each line maps to the value of the last line with that key, the first
\* line of the input included.
C1_KeySepValue ==
  (Ended /\ \A n \in 1..Len(lines) : KeySepValue(Stripped(n)))
    => /\ pc = "done"
       /\ \A n \in 1..Len(lines) :
            (\A m \in (n + 1)..Len(lines) :
               KeyOf(Stripped(m)) # KeyOf(Stripped(n)))
              => /\ KeyOf(Stripped(n)) \in DOMAIN props
                 /\ props[KeyOf(Stripped(n))] = ValueOf(Stripped(n))

\* The input with its last two raw lines merged: the last but one, stripped,
\* without its final backslash, followed by the stripped last.
MergeLastTwo(lns) ==
  SubSeq(lns, 1, Len(lns) - 2)
    \o <<Slice(strip(lns[Len(lns) - 1]), 0, Len(strip(lns[Len(lns) - 1])) - 1)
           \o strip(lns[Len(lns)])>>

\* C2: when the last but one raw line, and no other, ends (stripped) with a
\* backslash, read_properties gives the mapping it gives for the input with
\* the last two lines merged into one: the separator is searched on the
\* merged line.  (Stated for the runs in which both calls return.)
C2_MergeBeforeSeparator ==
  (/\ pc = "done"
   /\ Len(lines) >= 2
   /\ \A n \in 1..Len(lines) :
        (Stripped(n) # << >> /\ Last(Stripped(n)) = BS)
          <=> n = Len(lines) - 1)
    => LET merged == read_properties(MergeLastTwo(lines), py)
       IN  merged.pc = "done" => props = merged.props

\* Every backslash of the text escapes a '=' or ':' that follows it, and no
\* backslash follows another.
OnlySingleEscapes(s) ==
  \A p \in 1..Len(s) :
    s[p] = BS => /\ p < Len(s) /\ s[p + 1] \in {"=", ":"}
                 /\ (p = 1 \/ s[p - 1] # BS)

\* The text with its escaping backslashes taken out.
DropEscapes(s) == SelectSeq(s, LAMBDA ch : ch # BS)

\* The 0-based position of the first whitespace of the text, or -1.
FirstWhitespace(s) ==
  IF \E p \in 1..Len(s) : s[p] = " "
    THEN (CHOOSE p \in 1..Len(s) :
            s[p] = " " /\ \A q \in 1..(p - 1) : s[q] # " ") - 1
    ELSE -1

\* The loop is about to take a raw line that starts a logical line.
AtLine ==
  /\ pc = "loop" /\ i < Len(lines)
  /\ Stripped(i + 1) # << >> /\ Stripped(i + 1)[1] \notin {"#", ";"}

\* C3: the separator the loop cuts a line at is never a '=' or ':' that
\* follows a backslash.  And the loop taking a line in which single
\* backslashes escape '=' or ':' (and there is no other backslash) stores an
\* entry: the key is the text before the separator and the value the text
\* after it, each with the escaped characters left without their
\* backslashes; when every '=' and ':' of the line is escaped the separator
\* is the first whitespace of the line, or there is none and the whole line
\* is the key, with an empty value.
C3_Step ==
  LET raw == Stripped(i + 1)
  IN  /\ (AtLine /\ pc' = "loop" /\ sepidx' > 0
            /\ line'[sepidx' + 1] \in {"=", ":"})
           => line'[sepidx'] # BS
      /\ (AtLine /\ OnlySingleEscapes(raw)
            /\ BS \in {raw[p] : p \in 1..Len(raw)})
           => /\ pc' = "loop" /\ i' = i + 1 /\ line' = raw
              /\ key' = strip(DropEscapes(
                          IF sepidx' = -1 THEN raw
                          ELSE Slice(raw, 0, sepidx')))
              /\ value' = strip(DropEscapes(
                            IF sepidx' = -1 THEN << >>
                            ELSE Slice(raw, sepidx' + 1, Len(raw))))
              /\ key' \in DOMAIN props' /\ props'[key'] = value'
              /\ (\A p \in 1..Len(raw) :
                    raw[p] \in {"=", ":"} => p > 1 /\ raw[p - 1] = BS)
                   => sepidx' = FirstWhitespace(raw)

C3_EscapedSeparators == [][C3_Step]_vars

\* The line \:=a has been stored with the key ':' and the value 'a'.
C3_Witness ==
  /\ line = <<BS, ":", "=", "a">>
  /\ sepidx = 2 /\ key = <<":">> /\ value = <<"a">>
  /\ <<":">> \in DOMAIN props

\* C4: the loop taking a line whose first '=' or ':' is preceded by exactly
\* two backslashes, with no whitespace before it, cuts the line at that
\* character.
C4_Step ==
  LET raw == Stripped(i + 1)
  IN  AtLine =>
        \A p \in 3..Len(raw) :
          (/\ Last(raw) # BS
           /\ raw[p] \in {"=", ":"}
           /\ raw[p - 1] = BS /\ raw[p - 2] = BS
           /\ (p = 3 \/ raw[p - 3] # BS)
           /\ \A q \in 1..(p - 1) : raw[q] \notin {"=", ":", " "})
            => pc' = "loop" /\ sepidx' = p - 1

C4_EvenBackslashes == [][C4_Step]_vars

\* The entries the loop stores, in order, as <<key, value>> pairs.
RECURSIVE Stored(_, _, _, _)
Stored(lns, n, wsp, ver) ==
  IF n >= Len(lns) THEN << >>
  ELSE CHOOSE es \in
         {IF r.kind = "raise" THEN << >>
          ELSE (IF r.kind = "store" THEN <<(<<r.key, r.value>>)>> ELSE << >>)
                 \o Stored(lns, r.n, r.wspacere, ver) :
            r \in {Iteration(lns, n, << >>, wsp, ver)}} : TRUE

\* C5: when read_properties returns, the keys of the mapping are the keys
\* of the entries stored, and each maps to the value of the last entry
\* stored under it; and whether the loop body raises does not depend on the
\* entries stored before.
C5_LastWins ==
  /\ pc = "done" =>
       LET es == Stored(lines, 0, "unbound", py)
       IN  /\ DOMAIN props = {es[j][1] : j \in 1..Len(es)}
           /\ \A j \in 1..Len(es) :
                (\A m \in (j + 1)..Len(es) : es[m][1] # es[j][1])
                  => props[es[j][1]] = es[j][2]
  /\ (pc = "loop" /\ i < Len(lines)) =>
       Iteration(lines, i, props, wspacere, py).kind
         = Iteration(lines, i, << >>, wspacere, py).kind

\* read_properties has returned after storing two values under one key.
C5_Witness ==
  /\ pc = "done"
  /\ LET es == Stored(lines, 0, "unbound", py)
     IN  \E j \in 1..Len(es) : \E m \in (j + 1)..Len(es) :
           es[j][1] = es[m][1] /\ es[j][2] # es[m][2]

\* A raw line that is blank, or whose first non-space character is '#' or
\* ';'.
BlankOrComment(raw) ==
  strip(raw) = << >> \/ strip(raw)[1] \in {"#", ";"}

\* The lines without those at the positions of drop.
RECURSIVE WithoutLines(_, _, _)
WithoutLines(lns, n, drop) ==
  IF n > Len(lns) THEN << >>
  ELSE (IF n \in drop THEN << >> ELSE <<lns[n]>>)
         \o WithoutLines(lns, n + 1, drop)

\* The positions of the raw lines the for loop itself takes (the others
\* are taken by the while loop, as continuations, or never).
RECURSIVE LoopStarts(_, _, _, _)
LoopStarts(lns, n, wsp, ver) ==
  IF n >= Len(lns) THEN {}
  ELSE CHOOSE ps \in
         {{n + 1} \cup (IF r.kind = "raise" THEN {}
                        ELSE LoopStarts(lns, r.n, r.wspacere, ver)) :
            r \in {Iteration(lns, n, << >>, wsp, ver)}} : TRUE

\* C6 as stated: when read_properties returns a mapping, and returns one for
\* the input without its blank and comment lines, the two are the same.
C6_Original ==
  pc = "done" =>
    LET other == read_properties(
                   WithoutLines(lines, 1,
                     {n \in 1..Len(lines) : BlankOrComment(lines[n])}), py)
    IN  other.pc = "done" => other.props = props

\* C6, amended: read_properties gives the same result (the same mapping, or
\* the same exception) for the input without the blank and comment lines
\* that the for loop itself takes, that is, those not appended to a line
\* ending with a backslash as its continuation.
C6_SkippedLines ==
  Ended =>
    Result = read_properties(
               WithoutLines(lines, 1,
                 {n \in LoopStarts(lines, 0, "unbound", py) :
                    BlankOrComment(lines[n])}), py)

\* read_properties has returned entries for an input in which the for loop
\* took a comment line.
C6_Witness ==
  /\ pc = "done" /\ props # << >>
  /\ \E n \in LoopStarts(lines, 0, "unbound", py) :
       strip(lines[n]) # << >> /\ BlankOrComment(lines[n])

\* C7: read_properties does not raise (here: on lines without backslashes),
\* and a last line without '=', ':' or whitespace is a key of the mapping,
\* with an empty value.
C7_NeverRaises ==
  (Ended /\ \A n \in 1..Len(lines) : \A p \in 1..Len(lines[n]) :
              lines[n][p] # BS) =>
    /\ pc = "done"
    /\ \A n \in 1..Len(lines) :
         (/\ n = Len(lines)
          /\ Stripped(n) # << >>
          /\ \A p \in 1..Len(Stripped(n)) : Stripped(n)[p] = "a")
           => /\ Stripped(n) \in DOMAIN props
              /\ props[Stripped(n)] = << >>

\* The input with the last character of its last stripped line dropped.
DropLastBackslash(lns) ==
  [lns EXCEPT ![Len(lns)] =
     Slice(strip(lns[Len(lns)]), 0, Len(strip(lns[Len(lns)])) - 1)]

\* C8: when the last raw line, and no other, ends with a backslash (each
\* line holding a '=' or ':'), read_properties returns the mapping it
\* returns for the input without that backslash.
C8_TrailingBackslash ==
  (/\ Ended
   /\ Len(lines) >= 1
   /\ \A n \in 1..Len(lines) : \E p \in 1..Len(lines[n]) :
        lines[n][p] \in {"=", ":"}
   /\ Stripped(Len(lines)) # << >>
   /\ Last(Stripped(Len(lines))) = BS
   /\ \A n \in 1..(Len(lines) - 1) :
        Stripped(n) = << >> \/ Last(Stripped(n)) # BS)
    => /\ pc = "done"
       /\ Result = read_properties(DropLastBackslash(lines), py)

\* The environment name of a property name: '.' becomes '_', letters are
\* upper-cased.
EnvNameOf(k) ==
  [p \in 1..Len(k) |->
     CASE k[p] = "." -> "_"
       [] k[p] = "a" -> "A"
       [] k[p] = "b" -> "B"
       [] OTHER -> k[p]]

\* C9: a get returns the value last loaded or set for the key when there is
\* one (None is no value); otherwise the value of the environment variable
\* named after the key when it is set; otherwise the default.
C9_GetPrecedence ==
  got.key # << >> =>
    got.result =
      IF written[got.key] # None THEN written[got.key]
      ELSE IF EnvNameOf(got.key) \in DOMAIN environ
        THEN environ[EnvNameOf(got.key)]
      ELSE got.value

\* A get has returned the property a.b although A_B is set in the
\* environment.
C9_Witness ==
  /\ got.key = <<"a", ".", "b">>
  /\ got.result = "other"
  /\ <<"a", ".", "b">> \in DOMAIN properties
  /\ written[<<"a", ".", "b">>] = "other"
  /\ <<"A", "_", "B">> \in DOMAIN environ

\* C10: is_authenticated() is true exactly when a login has been granted a
\* token and no logout has returned since; the session token is then the
\* token of the last such login; and every request made carried the
\* X-CSRF-Token header exactly when a login was in force, with its token.
C10_SessionToken ==
  /\ is_authenticated <=> granted # None
  /\ services_session_token = granted
  /\ \A n \in 1..Len(sent) :
       sent[n].header = IF sent[n].granted # None THEN sent[n].granted
                        ELSE "<no header>"

\* A request went out with a token, a logout returned, and the next request
\* went out without the header.
C10_Witness ==
  /\ ~is_authenticated
  /\ \E n \in 2..Len(sent) :
       /\ sent[n - 1].header \in Tokens
       /\ sent[n].header = "<no header>"

====
